---------------------------- MODULE Spec2Model ----------------------------
(* Standalone address descriptor `addr(ADDR)` of rust-miniscript            *)
(* (src/descriptor/addr.rs): the descriptor value, its script derivation,  *)
(* its checksummed text form and its identity key translation.             *)
(*                                                                         *)
(* Text is a sequence of one-character strings.  The address value, its    *)
(* text form, the descriptor checksum and the expression parser are the    *)
(* collaborators addr.rs calls; they are modelled below at the granularity *)
(* addr.rs observes them.                                                  *)
EXTENDS Integers, Sequences, FiniteSets, TLC

VARIABLES desc, text, origin, result, scripts

vars == <<desc, text, origin, result, scripts>>

(***************************************************************************)
(* Bounds of the model                                                     *)
(***************************************************************************)
\* number of distinct hash / witness-program contents per payload shape
NumHashes == 1
\* largest argument count of a tree handed to from_tree directly
MaxArgs == 2

(***************************************************************************)
(* Generic helpers on sequences                                            *)
(***************************************************************************)
Range(s) == {s[i] : i \in 1..Len(s)}

IndexOf(s, c) == IF c \in Range(s) THEN CHOOSE i \in 1..Len(s) : s[i] = c ELSE 0

\* position of the first / last occurrence of character c in s, 0 when absent
FirstPos(s, c) ==
    IF c \in Range(s)
    THEN CHOOSE i \in 1..Len(s) : s[i] = c /\ \A j \in 1..(i - 1) : s[j] # c
    ELSE 0

LastPos(s, c) ==
    IF c \in Range(s)
    THEN CHOOSE i \in 1..Len(s) : s[i] = c /\ \A j \in (i + 1)..Len(s) : s[j] # c
    ELSE 0

Replace(s, i, c) == [s EXCEPT ![i] = c]

None == [none |-> TRUE]

Ok(v) == [ok |-> TRUE, val |-> v]

Err(e) == [ok |-> FALSE, err |-> e]

(***************************************************************************)
(* Address value (bitcoin::Address): a network tag and a payload           *)
(***************************************************************************)
Networks == {"Bitcoin", "Testnet", "Signet", "Regtest"}

Hashes == 1..NumHashes

\* witness versions the model draws (V0, taproot's V1, non-standard ones)
Versions == {0, 1, 2, 16}

\* witness program lengths the model draws; 2..40 is the legal range
ProgLens == {2, 20, 32, 40}

PubkeyHash(h) == [kind |-> "PubkeyHash", hash |-> h]

ScriptHash(h) == [kind |-> "ScriptHash", hash |-> h]

WitnessProgram(v, n, h) ==
    [kind |-> "WitnessProgram", version |-> v, program |-> [len |-> n, id |-> h]]

\* lengths a witness program of version v may have in a valid address
ValidProgramLen(v, n) ==
    /\ n >= 2
    /\ n <= 40
    /\ (v = 0 => n \in {20, 32})

Payloads ==
    {PubkeyHash(h) : h \in Hashes} \cup {ScriptHash(h) : h \in Hashes} \cup
    {WitnessProgram(v, n, h) : v \in Versions, n \in ProgLens, h \in Hashes}

ValidPayload(p) ==
    p.kind = "WitnessProgram" => ValidProgramLen(p.version, p.program.len)

Address(n, p) == [network |-> n, payload |-> p]

ValidAddresses == {Address(n, p) : n \in Networks, p \in {q \in Payloads : ValidPayload(q)}}

\* Address::address_type: the standard output type, None when not standard
address_type(a) ==
    LET p == a.payload IN
    CASE p.kind = "PubkeyHash" -> "P2pkh"
      [] p.kind = "ScriptHash" -> "P2sh"
      [] p.kind = "WitnessProgram" ->
            IF p.version = 0
            THEN (IF p.program.len = 20 THEN "P2wpkh"
                  ELSE IF p.program.len = 32 THEN "P2wsh" ELSE "None")
            ELSE IF p.version = 1 /\ p.program.len = 32 THEN "P2tr" ELSE "None"

\* Payload::script_pubkey: the output script, as a sequence of script items
Item(op, a, b) == [op |-> op, a |-> a, b |-> b]

Payload_script_pubkey(p) ==
    CASE p.kind = "PubkeyHash" ->
            <<Item("OP_DUP", 0, 0), Item("OP_HASH160", 0, 0), Item("PUSH", 20, p.hash),
              Item("OP_EQUALVERIFY", 0, 0), Item("OP_CHECKSIG", 0, 0)>>
      [] p.kind = "ScriptHash" ->
            <<Item("OP_HASH160", 0, 0), Item("PUSH", 20, p.hash), Item("OP_EQUAL", 0, 0)>>
      [] p.kind = "WitnessProgram" ->
            <<Item("OP_PUSHNUM", p.version, 0), Item("PUSH", p.program.len, p.program.id)>>

Address_script_pubkey(a) == Payload_script_pubkey(a.payload)

(***************************************************************************)
(* Address text (Display / FromStr of bitcoin::Address)                    *)
(*   base58:  <version char> <hash char>                                   *)
(*   bech32:  <hrp> "1" <version char> <length char> <content char>        *)
(*            <variant char>                                               *)
(* The hash, the program and the bech32 checksum constant are each one     *)
(* character of the data alphabet.                                         *)
(***************************************************************************)
BECH32 ==
    <<"q", "p", "z", "r", "y", "9", "x", "8", "g", "f", "2", "t", "v", "d", "w", "0",
      "s", "3", "j", "n", "5", "4", "k", "h", "c", "e", "6", "m", "u", "a", "7", "l">>

BASE58DATA == <<"A", "B", "C", "D", "E", "F", "G", "H">>

\* program lengths that have a length character, legal or not
LenCodes == <<1, 2, 20, 32, 40, 41>>

\* version bytes of base58 addresses
Base58Version(n, kind) ==
    IF n = "Bitcoin"
    THEN (IF kind = "PubkeyHash" THEN "1" ELSE "3")
    ELSE (IF kind = "PubkeyHash" THEN "m" ELSE "2")

\* human-readable part of bech32 addresses
Hrp(n) ==
    CASE n = "Bitcoin" -> <<"b", "c">>
      [] n \in {"Testnet", "Signet"} -> <<"t", "b">>
      [] n = "Regtest" -> <<"b", "c", "r", "t">>

\* WitnessVersion::bech32_variant
bech32_variant(v) == IF v = 0 THEN "Bech32" ELSE "Bech32m"

VariantChar(variant) == IF variant = "Bech32" THEN "c" ELSE "m"

\* impl Display for Address
Address_fmt(a) ==
    LET p == a.payload IN
    IF p.kind = "WitnessProgram"
    THEN Hrp(a.network) \o
         <<"1", BECH32[p.version + 1], BECH32[IndexOf(LenCodes, p.program.len)],
           BECH32[p.program.id], VariantChar(bech32_variant(p.version))>>
    ELSE <<Base58Version(a.network, p.kind), BASE58DATA[p.hash]>>

\* find_bech32_prefix: the text before the last "1", all of it when there is none
find_bech32_prefix(s) ==
    IF LastPos(s, "1") = 0 THEN s ELSE SubSeq(s, 1, LastPos(s, "1") - 1)

AddrErr(what) == [kind |-> "Address", what |-> what]

Bech32_from_str(s, network) ==
    LET data == SubSeq(s, LastPos(s, "1") + 1, Len(s)) IN
    IF Len(data) = 0 THEN Err(AddrErr("EmptyBech32Payload"))
    ELSE IF Len(data) # 4 \/ \E i \in 1..Len(data) : data[i] \notin Range(BECH32)
    THEN Err(AddrErr("Bech32"))
    ELSE LET v == IndexOf(BECH32, data[1]) - 1
             l == IndexOf(BECH32, data[2])
             h == IndexOf(BECH32, data[3])
         IN
         IF v > 16 THEN Err(AddrErr("InvalidWitnessVersion"))
         ELSE IF l > Len(LenCodes) \/ data[4] \notin {"c", "m"}
         THEN Err(AddrErr("Bech32"))
         ELSE IF LenCodes[l] < 2 \/ LenCodes[l] > 40
         THEN Err(AddrErr("InvalidWitnessProgramLength"))
         ELSE IF v = 0 /\ LenCodes[l] \notin {20, 32}
         THEN Err(AddrErr("InvalidSegwitV0ProgramLength"))
         ELSE IF data[4] # VariantChar(bech32_variant(v))
         THEN Err(AddrErr("InvalidBech32Variant"))
         ELSE Ok(Address(network, WitnessProgram(v, LenCodes[l], h)))

Base58_from_str(s) ==
    IF Len(s) # 2 \/ s[2] \notin Range(BASE58DATA)
    THEN Err(AddrErr("Base58"))
    ELSE LET h == IndexOf(BASE58DATA, s[2]) IN
         CASE s[1] = "1" -> Ok(Address("Bitcoin", PubkeyHash(h)))
           [] s[1] = "3" -> Ok(Address("Bitcoin", ScriptHash(h)))
           [] s[1] = "m" -> Ok(Address("Testnet", PubkeyHash(h)))
           [] s[1] = "2" -> Ok(Address("Testnet", ScriptHash(h)))
           [] OTHER -> Err(AddrErr("InvalidAddressVersion"))

\* impl FromStr for Address
Address_from_str(s) ==
    LET hrp == find_bech32_prefix(s) IN
    CASE hrp = <<"b", "c">> -> Bech32_from_str(s, "Bitcoin")
      [] hrp = <<"t", "b">> -> Bech32_from_str(s, "Testnet")
      [] hrp = <<"b", "c", "r", "t">> -> Bech32_from_str(s, "Regtest")
      [] OTHER -> Base58_from_str(s)

(***************************************************************************)
(* Descriptor checksum (super::checksum) and expression parser             *)
(* (crate::expression), the two text collaborators of the codec            *)
(***************************************************************************)
\* characters a descriptor may hold
INPUT_CHARSET ==
    <<"0", "1", "2", "3", "4", "5", "6", "7", "8", "9", "(", ")", "[", "]", ",", "'",
      "/", "*", "a", "b", "c", "d", "e", "f", "g", "h", "@", ":", "$", "%", "{", "}",
      "I", "J", "K", "L", "M", "N", "O", "P", "Q", "R", "S", "T", "U", "V", "W", "X",
      "Y", "Z", "&", "+", "-", ".", ";", "<", "=", ">", "?", "!", "^", "_", "|", "~",
      "i", "j", "k", "l", "m", "n", "o", "p", "q", "r", "s", "t", "u", "v", "w", "x",
      "y", "z", "A", "B", "C", "D", "E", "F", "G", "H", "#", " ">>

\* characters a checksum is written in
CHECKSUM_CHARSET == BECH32

\* number of characters of a checksum
CHECKSUM_LEN == 8

\* the position of each character in INPUT_CHARSET
InputCode == [c \in Range(INPUT_CHARSET) |-> IndexOf(INPUT_CHARSET, c)]

RECURSIVE WeightedSum(_, _, _)
\* sum of code(s[i]) * (i + k) over the characters of s from position i on
WeightedSum(s, i, k) ==
    IF i > Len(s) THEN 0
    ELSE (InputCode[s[i]] * (i + k) + WeightedSum(s, i + 1, k)) % 32

\* desc_checksum: the checksum of a descriptor text, an error when the text
\* holds a character outside INPUT_CHARSET
desc_checksum(s) ==
    IF \E i \in 1..Len(s) : s[i] \notin DOMAIN InputCode
    THEN Err([kind |-> "BadDescriptor", what |-> "InvalidCharacter"])
    ELSE Ok([k \in 1..CHECKSUM_LEN |-> CHECKSUM_CHARSET[WeightedSum(s, 1, k) + 1]])

\* verify_checksum: the text before the first "#", after checking that what
\* follows it is the checksum of what precedes it; a text without "#" passes
verify_checksum(s) ==
    LET pos == FirstPos(s, "#") IN
    IF pos = 0 THEN Ok(s)
    ELSE LET desc_str == SubSeq(s, 1, pos - 1)
             checksum_str == SubSeq(s, pos + 1, Len(s))
             expected_sum == desc_checksum(desc_str)
         IN
         IF ~expected_sum.ok THEN expected_sum
         ELSE IF checksum_str # expected_sum.val
         THEN Err([kind |-> "ChecksumMismatch", what |-> "InvalidChecksum"])
         ELSE Ok(desc_str)

Tree(name, args) == [name |-> name, args |-> args]

\* position of the first "(", "," or ")" of sl, 0 when there is none
FirstDelim(sl) ==
    IF \E i \in 1..Len(sl) : sl[i] \in {"(", ",", ")"}
    THEN CHOOSE i \in 1..Len(sl) :
            /\ sl[i] \in {"(", ",", ")"}
            /\ \A j \in 1..(i - 1) : sl[j] \notin {"(", ",", ")"}
    ELSE 0

ParseErr(what) == [kind |-> "Parse", what |-> what]

RECURSIVE from_slice(_)
RECURSIVE from_slice_args(_, _, _)
\* Tree::from_slice: the tree at the head of sl and the text left after it
from_slice(sl) ==
    LET n == FirstDelim(sl) IN
    IF n = 0 THEN [ok |-> TRUE, val |-> Tree(sl, <<>>), rest |-> <<>>]
    ELSE IF sl[n] \in {",", ")"}
    THEN [ok |-> TRUE, val |-> Tree(SubSeq(sl, 1, n - 1), <<>>), rest |-> SubSeq(sl, n, Len(sl))]
    ELSE from_slice_args(SubSeq(sl, 1, n - 1), <<>>, SubSeq(sl, n + 1, Len(sl)))

\* the argument loop of Tree::from_slice, after the "(" of a function call
from_slice_args(name, args, sl) ==
    LET arg == from_slice(sl) IN
    IF ~arg.ok THEN arg
    ELSE IF Len(arg.rest) = 0 THEN Err(ParseErr("ExpectedChar)"))
    ELSE IF arg.rest[1] = ","
    THEN from_slice_args(name, Append(args, arg.val), Tail(arg.rest))
    ELSE IF arg.rest[1] = ")"
    THEN [ok |-> TRUE, val |-> Tree(name, Append(args, arg.val)), rest |-> Tail(arg.rest)]
    ELSE Err(ParseErr("ExpectedChar,"))

\* expression::Tree::from_str
Tree_from_str(s) ==
    IF \E i \in 1..Len(s) : s[i] \notin DOMAIN InputCode
    THEN Err(ParseErr("InvalidCharacter"))
    ELSE LET top == from_slice(s) IN
         IF ~top.ok THEN Err(top.err)
         ELSE IF Len(top.rest) = 0 THEN Ok(top.val)
         ELSE Err(ParseErr("Trailing"))

(***************************************************************************)
(* Addr (src/descriptor/addr.rs)                                           *)
(***************************************************************************)
ADDR == <<"a", "d", "d", "r">>

\* Addr::new
Addr_new(address) == [address |-> address]

\* Addr::into_inner
into_inner(self) == self.address

\* to_string_no_checksum with the closing parenthesis left out of the format
to_string_no_checksum_unclosed(self) == ADDR \o <<"(">> \o Address_fmt(self.address)

\* Addr::to_string_no_checksum
to_string_no_checksum(self) == ADDR \o <<"(">> \o Address_fmt(self.address) \o <<")">>

\* Addr::script_pubkey
script_pubkey(self) == Address_script_pubkey(self.address)

Some(v) == [some |-> TRUE, v |-> v]

NoneOpt == [some |-> FALSE]

\* segwit_version answering only for the standard witness output types
segwit_version_standard_only(self) ==
    IF address_type(self.address) \in {"P2wpkh", "P2wsh", "P2tr"}
    THEN Some(self.address.payload.version)
    ELSE NoneOpt

\* Addr::segwit_version
segwit_version(self) ==
    IF self.address.payload.kind = "WitnessProgram"
    THEN Some(self.address.payload.version)
    ELSE NoneOpt

\* explicit_script with P2sh among the accepted types
explicit_script_with_p2sh(self) ==
    IF address_type(self.address) \in {"P2pkh", "P2wpkh", "P2sh"}
    THEN Ok(Payload_script_pubkey(self.address.payload))
    ELSE Err([kind |-> "AddrNoExplicitScript"])

\* explicit_script with P2tr among the accepted types
explicit_script_with_p2tr(self) ==
    IF address_type(self.address) \in {"P2pkh", "P2wpkh", "P2tr"}
    THEN Ok(Payload_script_pubkey(self.address.payload))
    ELSE Err([kind |-> "AddrNoExplicitScript"])

\* Addr::explicit_script
explicit_script(self) ==
    IF address_type(self.address) \in {"P2pkh", "P2wpkh"}
    THEN Ok(Payload_script_pubkey(self.address.payload))
    ELSE Err([kind |-> "AddrNoExplicitScript"])

\* script_code refusing every version 1 witness program, whatever its length
script_code_any_v1(self) ==
    IF self.address.payload.kind = "WitnessProgram" /\ self.address.payload.version = 1
    THEN Err([kind |-> "AddrNoScriptCode"])
    ELSE Ok(script_pubkey(self))

\* Addr::script_code
script_code(self) ==
    IF address_type(self.address) = "P2tr"
    THEN Err([kind |-> "AddrNoScriptCode"])
    ELSE Ok(script_pubkey(self))

\* Error::Unexpected("{name}({n} args) while parsing addr descriptor")
Unexpected(name, n) == [kind |-> "Unexpected", name |-> name, nargs |-> n]

\* a result together with the collaborator calls made to compute it
WithCalls(r, calls) == [out |-> r, calls |-> calls]

\* from_tree with "or" in place of "and" in the shape test
from_tree_or(top) ==
    IF Len(top.args) >= 1 /\ (top.name = ADDR \/ Len(top.args) = 1)
    THEN LET a == Address_from_str(top.args[1].name) IN
         WithCalls(IF a.ok THEN Ok(Addr_new(a.val)) ELSE a, <<"Address::from_str">>)
    ELSE WithCalls(Err(Unexpected(top.name, Len(top.args))), <<>>)

\* impl FromTree for Addr
from_tree(top) ==
    IF top.name = ADDR /\ Len(top.args) = 1
    THEN LET a == Address_from_str(top.args[1].name) IN
         WithCalls(IF a.ok THEN Ok(Addr_new(a.val)) ELSE a, <<"Address::from_str">>)
    ELSE WithCalls(Err(Unexpected(top.name, Len(top.args))), <<>>)

\* Display with the checksum taken over the address text instead of the
\* whole no-checksum form
fmt_checksum_of_address(self) ==
    LET desc_str == to_string_no_checksum(self)
        checksum == desc_checksum(Address_fmt(self.address))
    IN
    IF ~checksum.ok THEN Err([kind |-> "fmt::Error"])
    ELSE Ok(desc_str \o <<"#">> \o checksum.val)

\* impl Display for Addr
fmt(self) ==
    LET desc_str == to_string_no_checksum(self)
        checksum == desc_checksum(desc_str)
    IN
    IF ~checksum.ok THEN Err([kind |-> "fmt::Error"])
    ELSE Ok(desc_str \o <<"#">> \o checksum.val)

\* from_str that strips the checksum segment without verifying it
from_str_unverified(s) ==
    LET stripped == IF FirstPos(s, "#") = 0 THEN s ELSE SubSeq(s, 1, FirstPos(s, "#") - 1)
        top == Tree_from_str(stripped)
    IN
    IF ~top.ok THEN WithCalls(top, <<"Tree::from_str">>)
    ELSE LET r == from_tree(top.val) IN
         WithCalls(r.out, <<"Tree::from_str", "from_tree">> \o r.calls)

\* from_str that parses the expression before it verifies the checksum
from_str_parse_first(s) ==
    LET stripped == IF FirstPos(s, "#") = 0 THEN s ELSE SubSeq(s, 1, FirstPos(s, "#") - 1)
        top == Tree_from_str(stripped)
    IN
    IF ~top.ok THEN WithCalls(top, <<"Tree::from_str">>)
    ELSE LET desc_str == verify_checksum(s) IN
         IF ~desc_str.ok THEN WithCalls(desc_str, <<"Tree::from_str", "verify_checksum">>)
         ELSE LET r == from_tree(top.val) IN
              WithCalls(r.out, <<"Tree::from_str", "verify_checksum", "from_tree">> \o r.calls)

\* impl FromStr for Addr
from_str(s) ==
    LET desc_str == verify_checksum(s) IN
    IF ~desc_str.ok THEN WithCalls(desc_str, <<"verify_checksum">>)
    ELSE LET top == Tree_from_str(desc_str.val) IN
         IF ~top.ok THEN WithCalls(top, <<"verify_checksum", "Tree::from_str">>)
         ELSE LET r == from_tree(top.val) IN
              WithCalls(r.out, <<"verify_checksum", "Tree::from_str", "from_tree">> \o r.calls)

\* the translation functions a caller may pass: one that succeeds, one that fails
Translators == {"succeeds", "fails"}

\* translate_pk that runs the key translation and propagates its failure
translate_pk_calling(self, fpk, fpkh) ==
    WithCalls(IF fpk = "fails" THEN Err([kind |-> "Translate"]) ELSE Ok(Addr_new(self.address)),
              <<"fpk">>)

\* impl TranslatePk for Addr
translate_pk(self, fpk, fpkh) == WithCalls(Ok(Addr_new(self.address)), <<>>)

(***************************************************************************)
(* State: one descriptor held by a caller, the text the caller produced or *)
(* typed, the codec or translation call made with its result, and the      *)
(* script-policy answers obtained.  A behaviour is one session of a        *)
(* caller: it queries the script policy, or translates keys, or hands a    *)
(* tree to from_tree, or gets a text (by formatting the descriptor and     *)
(* possibly overwriting one checksum character, or by typing) and parses   *)
(* it.                                                                     *)
(***************************************************************************)
PolicyOps == {"script_pubkey", "segwit_version", "explicit_script", "script_code"}

NoScripts == [o \in PolicyOps |-> None]

NoResult == [op |-> "none"]

Call(op, arg, from, r) ==
    [op |-> op, arg |-> arg, from |-> from, out |-> r.out, calls |-> r.calls]

NOTADDR == <<"n", "o", "t">> \o ADDR

\* address texts no address parses from: an unknown base58 version byte, a
\* segwit v0 program of 40 bytes, a v1 program under the v0 checksum constant
BadAddressTexts ==
    {<<"x", "A">>,
     <<"b", "c", "1", "q", BECH32[IndexOf(LenCodes, 40)], "q", "c">>,
     <<"t", "b", "1", "p", BECH32[IndexOf(LenCodes, 32)], "q", "c">>}

\* descriptor texts without checksum a caller may type around the address text x
Bodies(x) ==
    {<<>>,
     ADDR \o <<"(">> \o x \o <<")">>,
     ADDR \o <<"(">> \o x \o <<",">> \o x \o <<")">>,
     NOTADDR \o <<"(">> \o x \o <<")">>,
     ADDR,
     ADDR \o <<"(", ")">>,
     ADDR \o <<"(">> \o x,
     ADDR \o <<"(">> \o x \o <<")", ")">>} \cup
    {ADDR \o <<"(">> \o b \o <<")">> : b \in BadAddressTexts}

ChecksumModes == {"good", "none", "bad"}

\* a checksum character other than c
OtherChar(c) == IF c = "q" THEN "p" ELSE "q"

\* the text a caller types: the body alone, with its checksum, or with a
\* checksum whose first character is wrong
Typed(body, mode) ==
    LET sum == desc_checksum(body).val IN
    CASE mode = "none" -> body
      [] mode = "good" -> body \o <<"#">> \o sum
      [] mode = "bad" -> body \o <<"#">> \o Replace(sum, 1, OtherChar(sum[1]))

\* characters a caller may overwrite a checksum character with
TamperChars == {"q", "p", "#", "A", "("}

ChecksumPositions(s) ==
    IF FirstPos(s, "#") = 0 THEN {} ELSE (FirstPos(s, "#") + 1)..Len(s)

RECURSIVE SeqsUpTo(_, _)
\* the sequences over S of length at most n
SeqsUpTo(S, n) ==
    IF n = 0 THEN {<<>>}
    ELSE SeqsUpTo(S, n - 1) \cup
         {Append(q, e) : q \in {r \in SeqsUpTo(S, n - 1) : Len(r) = n - 1}, e \in S}

\* trees a caller may hand to from_tree around the address text x
Trees(x) ==
    {Tree(name, args) :
        name \in {ADDR, NOTADDR, <<>>},
        args \in SeqsUpTo({Tree(x, <<>>), Tree(<<"x", "A">>, <<>>)}, MaxArgs)}

TypeOK ==
    /\ desc.address \in ValidAddresses
    /\ origin \in {"none", "display", "failed", "tampered", "typed"}
    /\ result.op \in {"none", "fmt", "from_str", "from_tree", "translate_pk"}
    /\ DOMAIN scripts = PolicyOps

Init ==
    /\ desc \in {Addr_new(a) : a \in ValidAddresses}
    /\ text = <<>>
    /\ origin = "none"
    /\ result = NoResult
    /\ scripts = NoScripts

\* no call made yet
Idle == origin = "none" /\ result = NoResult /\ scripts = NoScripts

\* the caller formats the descriptor and keeps the text
Display ==
    LET r == fmt(desc) IN
    /\ Idle
    /\ result' = Call("fmt", desc, origin, WithCalls(r, <<"desc_checksum">>))
    /\ text' = IF r.ok THEN r.val ELSE text
    /\ origin' = IF r.ok THEN "display" ELSE "failed"
    /\ UNCHANGED <<desc, scripts>>

\* the caller overwrites one checksum character of the formatted descriptor
Tamper ==
    /\ origin = "display"
    /\ result.op = "fmt"
    /\ \E i \in ChecksumPositions(text), c \in TamperChars :
        /\ c # text[i]
        /\ text' = Replace(text, i, c)
    /\ origin' = "tampered"
    /\ UNCHANGED <<desc, result, scripts>>

\* the caller types a descriptor text
Type ==
    /\ Idle
    /\ \E body \in Bodies(Address_fmt(desc.address)), mode \in ChecksumModes :
        text' = Typed(body, mode)
    /\ origin' = "typed"
    /\ UNCHANGED <<desc, result, scripts>>

\* Addr::from_str on the caller's text
FromStr ==
    /\ origin \in {"display", "tampered", "typed"}
    /\ result.op # "from_str"
    /\ result' = Call("from_str", text, origin, from_str(text))
    /\ UNCHANGED <<desc, text, origin, scripts>>

\* Addr::from_tree on a tree the caller built
FromTree ==
    /\ Idle
    /\ \E t \in Trees(Address_fmt(desc.address)) :
        result' = Call("from_tree", t, origin, from_tree(t))
    /\ UNCHANGED <<desc, text, origin, scripts>>

\* Addr::translate_pk with the caller's two translation functions
TranslatePk ==
    /\ Idle
    /\ \E fpk \in Translators, fpkh \in Translators :
        result' = Call("translate_pk", desc, <<fpk, fpkh>>, translate_pk(desc, fpk, fpkh))
    /\ UNCHANGED <<desc, text, origin, scripts>>

\* one script-policy query, answered r
Policy(op, r) ==
    /\ origin = "none"
    /\ result = NoResult
    /\ scripts[op] = None
    /\ scripts' = [scripts EXCEPT ![op] = r]
    /\ UNCHANGED <<desc, text, origin, result>>

ScriptPubkey == Policy("script_pubkey", Ok(script_pubkey(desc)))

SegwitVersion == Policy("segwit_version", Ok(segwit_version(desc)))

ExplicitScript == Policy("explicit_script", explicit_script(desc))

ScriptCode == Policy("script_code", script_code(desc))

Next ==
    \/ Display
    \/ Tamper
    \/ Type
    \/ FromStr
    \/ FromTree
    \/ TranslatePk
    \/ ScriptPubkey
    \/ SegwitVersion
    \/ ExplicitScript
    \/ ScriptCode

Spec == Init /\ [][Next]_vars

(***************************************************************************)
(* Properties                                                              *)
(***************************************************************************)
\* the parse of the text that Display produced for the descriptor
ParsedDisplay == result.op = "from_str" /\ result.from = "display"

\* the networks an address text determines: mainnet and testnet always,
\* regtest only through the bech32 human-readable part
NetworkInText(a) ==
    \/ a.network \in {"Bitcoin", "Testnet"}
    \/ a.network = "Regtest" /\ a.payload.kind = "WitnessProgram"

\* C1 as stated: parsing the Display output of a descriptor succeeds and
\* yields a descriptor equal to it, for every valid address.
C1_RoundTrip ==
    ParsedDisplay => (result.out.ok /\ result.out.val = Addr_new(desc.address))

\* C1 amended: parsing the Display output of a descriptor succeeds and
\* yields a descriptor with the same payload; its network is the address's
\* own when the text determines it (Bitcoin, Testnet, Regtest witness
\* programs), and then the descriptor is equal to the original; otherwise
\* (Signet, Regtest base58) the parsed network is Testnet.
C1_RoundTripUpToNetwork ==
    ParsedDisplay =>
        /\ result.out.ok
        /\ result.out.val.address.payload = desc.address.payload
        /\ result.out.val.address.network =
              (IF NetworkInText(desc.address) THEN desc.address.network ELSE "Testnet")
        /\ NetworkInText(desc.address) => result.out.val = Addr_new(desc.address)

C1_Witness ==
    /\ ParsedDisplay
    /\ result.out.ok
    /\ desc.address.network = "Regtest"
    /\ result.out.val = desc

\* the answer the caller got to a script-policy query, None before it asked
Asked(op) == scripts[op] # None

IsWitness(a) == a.payload.kind = "WitnessProgram"

IsP2wpkh(a) == IsWitness(a) /\ a.payload.version = 0 /\ a.payload.program.len = 20

IsTaproot(a) == IsWitness(a) /\ a.payload.version = 1 /\ a.payload.program.len = 32

\* C2: explicit_script succeeds exactly for pay-to-public-key-hash and segwit
\* v0 pay-to-witness-public-key-hash addresses, then returning the script
\* pubkey of the address; for every other address it returns the "no
\* explicit script" error.
C2_ExplicitScript ==
    Asked("explicit_script") =>
        LET r == scripts["explicit_script"]
            a == desc.address
        IN
        /\ r.ok <=> (a.payload.kind = "PubkeyHash" \/ IsP2wpkh(a))
        /\ r.ok => r.val = Address_script_pubkey(a)
        /\ ~r.ok => r.err = [kind |-> "AddrNoExplicitScript"]

C2_Witness ==
    /\ Asked("explicit_script")
    /\ scripts["explicit_script"].ok
    /\ IsP2wpkh(desc.address)

\* C3: script_code fails with the "no script code" error exactly for taproot
\* outputs (version 1, 32-byte program); for every other address, P2SH and
\* non-standard witness programs included, it returns the script pubkey.
C3_ScriptCode ==
    Asked("script_code") =>
        LET r == scripts["script_code"]
            a == desc.address
        IN
        /\ ~r.ok <=> IsTaproot(a)
        /\ ~r.ok => r.err = [kind |-> "AddrNoScriptCode"]
        /\ r.ok => r.val = Address_script_pubkey(a)

C3_Witness ==
    /\ Asked("script_code")
    /\ scripts["script_code"].ok
    /\ IsWitness(desc.address)
    /\ desc.address.payload.version = 1
    /\ desc.address.payload.program.len # 32

\* the tree whose shape a from_tree or from_str call examined, when it got
\* that far
ShapeChecked ==
    \/ result.op = "from_tree"
    \/ result.op = "from_str" /\ Len(result.calls) >= 3

ExaminedTree ==
    IF result.op = "from_tree" THEN result.arg
    ELSE Tree_from_str(verify_checksum(result.arg).val).val

\* C4: from_tree, called directly or by from_str, constructs a descriptor
\* only when the top node is named "addr" and has exactly one argument; for
\* any other name or argument count it fails with the "unexpected
\* expression" error carrying that name and count.
C4_NameAndArity ==
    ShapeChecked =>
        LET t == ExaminedTree
            shaped == t.name = ADDR /\ Len(t.args) = 1
        IN
        /\ result.out.ok => shaped
        /\ ~shaped => /\ ~result.out.ok
                      /\ result.out.err = [kind |-> "Unexpected", name |-> t.name,
                                           nargs |-> Len(t.args)]
        /\ shaped => ~(~result.out.ok /\ result.out.err.kind = "Unexpected")

C4_Witness ==
    /\ result.op = "from_tree"
    /\ result.arg.name = ADDR
    /\ Len(result.arg.args) = 2
    /\ ~result.out.ok

\* C5: parsing a Display output in which one checksum character was
\* replaced by a different character of the descriptor alphabet fails with
\* the checksum error, and no later step runs.
C5_ChecksumSensitivity ==
    (result.op = "from_str" /\ result.from = "tampered") =>
        /\ ~result.out.ok
        /\ result.out.err.kind = "ChecksumMismatch"
        /\ result.calls = <<"verify_checksum">>

C5_Witness ==
    /\ result.op = "from_str"
    /\ result.from = "tampered"
    /\ result.arg[Len(result.arg)] = "A"
    /\ ~result.out.ok

\* the four steps of from_str, in order
Steps == <<"verify_checksum", "Tree::from_str", "from_tree", "Address::from_str">>

\* C6: from_str runs checksum verification, expression parsing, name/arity
\* validation and address parsing in that order; it stops at the first step
\* that fails, returning that step's error, and returns a descriptor only
\* when all four succeeded.
C6_StepOrder ==
    result.op = "from_str" =>
        LET n == Len(result.calls)
            v == verify_checksum(result.arg)
            t == Tree_from_str(v.val)
            shaped == t.val.name = ADDR /\ Len(t.val.args) = 1
            a == Address_from_str(t.val.args[1].name)
        IN
        /\ n \in 1..4
        /\ result.calls = SubSeq(Steps, 1, n)
        /\ ~v.ok <=> n = 1
        /\ n = 1 => (~result.out.ok /\ result.out.err = v.err)
        /\ n = 2 => (~t.ok /\ ~result.out.ok /\ result.out.err = t.err)
        /\ n = 3 => (t.ok /\ ~shaped /\ ~result.out.ok /\ result.out.err.kind = "Unexpected")
        /\ n = 4 => (t.ok /\ shaped /\ result.out.ok = a.ok)
        /\ (n = 4 /\ ~a.ok) => result.out.err = a.err
        /\ result.out.ok => (n = 4 /\ a.ok /\ result.out.val = Addr_new(a.val))

\* a text with a wrong checksum whose body would not parse either: the
\* checksum error is the one returned
C6_Witness ==
    /\ result.op = "from_str"
    /\ result.from = "typed"
    /\ FirstPos(result.arg, "#") > 0
    /\ ~Tree_from_str(SubSeq(result.arg, 1, FirstPos(result.arg, "#") - 1)).ok
    /\ result.calls = <<"verify_checksum">>
    /\ result.out.err.kind = "ChecksumMismatch"

\* C7: translate_pk returns success with a descriptor equal to the one it
\* was called on, whatever the two translation functions are, calls neither
\* of them, and leaves the descriptor as it was.
C7_TranslateIdentity ==
    result.op = "translate_pk" =>
        /\ result.out.ok
        /\ result.out.val = result.arg
        /\ result.arg = desc
        /\ result.calls = <<>>

C7_Witness ==
    /\ result.op = "translate_pk"
    /\ result.from = <<"fails", "fails">>
    /\ result.out.ok

\* C8: segwit_version returns the witness version exactly when the payload
\* is a witness program, of any version and length, and None for the
\* pay-to-public-key-hash and pay-to-script-hash payloads.
C8_SegwitVersion ==
    Asked("segwit_version") =>
        LET r == scripts["segwit_version"].val
            p == desc.address.payload
        IN
        /\ r.some <=> p.kind = "WitnessProgram"
        /\ r.some => r.v = p.version

C8_Witness ==
    /\ Asked("segwit_version")
    /\ scripts["segwit_version"].val.some
    /\ scripts["segwit_version"].val.v = 16

\* C9: Display writes "addr(", the address text, ")", "#" and the checksum
\* of the text up to the ")"; it fails exactly when that checksum cannot be
\* computed, and then no text is produced.
C9_DisplayForm ==
    result.op = "fmt" =>
        LET body == <<"a", "d", "d", "r", "(">> \o Address_fmt(desc.address) \o <<")">>
            sum == desc_checksum(body)
        IN
        /\ result.out.ok <=> sum.ok
        /\ result.out.ok => result.out.val = body \o <<"#">> \o sum.val
        /\ (result.out.ok /\ origin = "display") => text = result.out.val
        /\ ~result.out.ok => origin = "failed"

C9_Witness ==
    /\ result.op = "fmt"
    /\ result.out.ok
    /\ origin = "display"
    /\ Len(text) = Len(Address_fmt(desc.address)) + Len(ADDR) + 3 + CHECKSUM_LEN

AskedAll == \A op \in PolicyOps : Asked(op)

\* C10: whenever explicit_script succeeds, script_code succeeds too and both
\* return the script pubkey; whenever script_code fails, explicit_script
\* fails too and the segwit version is 1.
C10_PolicyConsistency ==
    AskedAll =>
        LET e == scripts["explicit_script"]
            c == scripts["script_code"]
            k == scripts["script_pubkey"].val
            w == scripts["segwit_version"].val
        IN
        /\ e.ok => (c.ok /\ e.val = c.val /\ e.val = k)
        /\ ~c.ok => (~e.ok /\ w = Some(1))

C10_Witness ==
    /\ AskedAll
    /\ ~scripts["script_code"].ok
    /\ ~scripts["explicit_script"].ok

=============================================================================
